---- MODULE Spec2Model ----
(***************************************************************************)
(* Model of the rate-limit aware League of Legends API client              *)
(* (src/src/lol_api) : the endpoint status machine, the endpoint table     *)
(* behind its mutex, the request pipeline of Context::send_query and the   *)
(* retry loop of Context::query_with_retry.                                *)
(*                                                                         *)
(* Time is counted in whole seconds.  tokio Instant::now() and chrono      *)
(* Utc::now() both read the variable now.  A Duration is a natural number  *)
(* of seconds of DurationBits bits (u64 seconds in the source), so that    *)
(* checked_mul overflows at DurationMax.                                   *)
(***************************************************************************)
EXTENDS Integers, Sequences, FiniteSets, TLC

\* ------------------------------------------------------------- bounds
MaxTime == 3
RetryCountMax == 1
DurationBits == 5
NumRequests == 2
MaxAttempts == 3
NumWalkers == 2
MaxSteps == 2
MaxMatchId == 3
MaxListLen == 2
ServerLimit == 2
ServerWindow == 2
MaxTestTime == 4
MaxPairs == 2
MaxLimit == 2

DurationMax == 2^DurationBits - 1

\* ------------------------------------------------ Option<T> of the source
None == [some |-> FALSE, val |-> 0]
Some(v) == [some |-> TRUE, val |-> v]

\* --------------------------------------------------- endpoint/id.rs
Na1 == 0
SummonerV4 == 0
REGION_COUNT == 1
SERVICE_COUNT == 1
MAX_METHODS_PER_SERVICE == 128

\* the method indices (Method::X as u32) the requests of the model use
MethodIdx == {0, 1}

from_region(region) == region

from_service(region, service) ==
    REGION_COUNT + (region * SERVICE_COUNT) + service

from_method(service, method) ==
    REGION_COUNT + (SERVICE_COUNT * REGION_COUNT)
        + (service * MAX_METHODS_PER_SERVICE) + method

is_region(id) == id < REGION_COUNT

is_service(id) ==
    id > REGION_COUNT /\ id < (REGION_COUNT + (SERVICE_COUNT * REGION_COUNT))

\* a method test that takes every id that is not a region's
is_method_loose(id) == ~ is_region(id)

is_method(id) == id > REGION_COUNT + (SERVICE_COUNT * REGION_COUNT)

\* endpoint_ids of a _try_query_* call: [region, service, method]
endpoint_ids(method) ==
    << from_region(Na1), from_service(Na1, SummonerV4),
       from_method(SummonerV4, method) >>

AllIds == UNION { { endpoint_ids(m)[i] : i \in 1..3 } : m \in MethodIdx }

\* ------------------------------------------------ endpoint/mod.rs : Status
Unkown == [tag |-> "Unkown", start |-> 0, duration |-> 0]
Normal == [tag |-> "Normal", start |-> 0, duration |-> 0]
Cooldown(cd) == [tag |-> "Cooldown", start |-> cd.start, duration |-> cd.duration]
JustOffCooldown(d) == [tag |-> "JustOffCooldown", start |-> 0, duration |-> d]

\* CooldownState::new : the start is the instant of construction
CooldownState_new(duration, t) == [start |-> t, duration |-> duration]

\* CooldownState::time_left : since_started.checked_sub(self.duration)
time_left(cd, t) ==
    LET since_started == t - cd.start
    IN  IF since_started >= cd.duration
        THEN Some(since_started - cd.duration) ELSE None

\* CooldownState::is_expired
is_expired(cd, t) == ~ time_left(cd, t).some

\* ------------------------------------------------ endpoint/mod.rs : Endpoint
EmptyBuckets == [w \in {} |-> 0]

\* an endpoint that is created Normal
Endpoint_new_normal ==
    [ status |-> [tag |-> "Normal", start |-> 0, duration |-> 0],
      rate_limit_buckets |-> EmptyBuckets,
      last_update_timestamp_ms |-> 0 ]

Endpoint_new ==
    [ status |-> Unkown,
      rate_limit_buckets |-> EmptyBuckets,
      last_update_timestamp_ms |-> 0 ]

\* Endpoint::update_buckets.  The bucket map is cleared, one bucket is
\* inserted per limit entry (count 0, start_timestamp the local clock), then
\* each count entry is written to the bucket of its window; a count entry
\* whose window has no bucket makes get_mut(..).unwrap() panic.
RECURSIVE InsertLimits(_, _, _)
InsertLimits(buckets, limits, t) ==
    IF limits = << >> THEN buckets
    ELSE LET limit == Head(limits)[1]
             bucket_size == Head(limits)[2]
             old == IF bucket_size \in DOMAIN buckets
                    THEN buckets[bucket_size]
                    ELSE [count |-> 0, max_count |-> 0, start_timestamp |-> t]
             new == [old EXCEPT !.max_count = limit]
         IN  InsertLimits(
                 [w \in (DOMAIN buckets) \cup {bucket_size} |->
                     IF w = bucket_size THEN new ELSE buckets[w]],
                 Tail(limits), t)

RECURSIVE SetCounts(_, _, _)
SetCounts(buckets, counts, timestamp) ==
    IF counts = << >> THEN buckets
    ELSE LET count == Head(counts)[1]
             bucket_size == Head(counts)[2]
             bucket == buckets[bucket_size]
             rolled == IF bucket.count > count
                       THEN [bucket EXCEPT !.start_timestamp = timestamp]
                       ELSE bucket
         IN  SetCounts([buckets EXCEPT ![bucket_size] =
                                    [rolled EXCEPT !.count = count]],
                       Tail(counts), timestamp)

\* TRUE when update_buckets would panic on these headers
update_buckets_panics(limits, counts) ==
    \E i \in 1..Len(counts) :
        counts[i][2] \notin { limits[j][2] : j \in 1..Len(limits) }

\* an update that does not clear the bucket map first
update_buckets_keeping(ep, limits, counts, timestamp, t) ==
    [ ep EXCEPT
        !.rate_limit_buckets =
            SetCounts(InsertLimits(ep.rate_limit_buckets, limits, t), counts, timestamp),
        !.last_update_timestamp_ms = timestamp ]

update_buckets(ep, limits, counts, timestamp, t) ==
    [ ep EXCEPT
        !.rate_limit_buckets =
            SetCounts(InsertLimits(EmptyBuckets, limits, t), counts, timestamp),
        !.last_update_timestamp_ms = timestamp ]

\* Endpoint::update_status_pre_query
update_status_pre_query(ep, t) ==
    IF ep.status.tag = "Cooldown" /\ is_expired(ep.status, t)
    THEN [ep EXCEPT !.status = JustOffCooldown(ep.status.duration)]
    ELSE ep

\* should_cooldown comparing with > where the source compares with ==
should_cooldown_gt(ep, t) ==
    { CooldownState_new(w, t) :
        w \in { b \in DOMAIN ep.rate_limit_buckets :
                  ep.rate_limit_buckets[b].count
                      > ep.rate_limit_buckets[b].max_count } }

\* Endpoint::should_cooldown : the set of CooldownStates the scan of the
\* HashMap may return (its iteration order is unspecified); {} stands for None
should_cooldown(ep, t) ==
    { CooldownState_new(w, t) :
        w \in { b \in DOMAIN ep.rate_limit_buckets :
                  ep.rate_limit_buckets[b].count
                      = ep.rate_limit_buckets[b].max_count } }

\* Endpoint::set_status_normal_or_cooldown : the set of possible results
set_status_normal_or_cooldown(ep, t) ==
    IF should_cooldown(ep, t) # {}
    THEN { [ep EXCEPT !.status = Cooldown(cd)] : cd \in should_cooldown(ep, t) }
    ELSE { [ep EXCEPT !.status = Normal] }

\* reqwest::StatusCode values the server of the model answers with
OK == 200
TOO_MANY_REQUESTS == 429
INTERNAL_SERVER_ERROR == 500

\* Duration::checked_mul
checked_mul(d, k) == IF d * k <= DurationMax THEN Some(d * k) ELSE None

\* Endpoint::update_status_from_normal : the set of possible results
update_status_from_normal(ep, status_code, t) ==
    IF status_code = OK THEN set_status_normal_or_cooldown(ep, t) ELSE {ep}

\* Endpoint::update_status_from_unknown
update_status_from_unknown(ep, status_code, t) ==
    IF status_code = OK THEN set_status_normal_or_cooldown(ep, t) ELSE {ep}

\* Endpoint::update_status_from_just_off_cooldown, the unwrap() of the
\* checked_mul(2): TRUE when it panics
update_status_from_just_off_cooldown_panics(ep, status_code) ==
    /\ status_code = TOO_MANY_REQUESTS
    /\ ~ checked_mul(ep.status.duration, 2).some

\* a probe that keeps the previous duration on a 429
update_status_from_just_off_cooldown_same(ep, status_code, t) ==
    CASE status_code = OK -> set_status_normal_or_cooldown(ep, t)
      [] status_code = TOO_MANY_REQUESTS ->
            { [ep EXCEPT !.status = Cooldown(CooldownState_new(ep.status.duration, t))] }
      [] OTHER -> {ep}

\* Endpoint::update_status_from_just_off_cooldown (when it does not panic)
update_status_from_just_off_cooldown(ep, status_code, t) ==
    CASE status_code = OK -> set_status_normal_or_cooldown(ep, t)
      [] status_code = TOO_MANY_REQUESTS ->
            { [ep EXCEPT !.status = Cooldown(CooldownState_new(
                                checked_mul(ep.status.duration, 2).val, t))] }
      [] OTHER -> {ep}

\* Endpoint::update_status_from_response_code : TRUE when it panics
update_status_from_response_code_panics(ep, status_code) ==
    /\ ep.status.tag = "JustOffCooldown"
    /\ update_status_from_just_off_cooldown_panics(ep, status_code)

\* a dispatch that treats an endpoint in Cooldown as a Normal one
update_status_from_response_code_any(ep, status_code, t) ==
    CASE ep.status.tag = "Unkown" -> update_status_from_unknown(ep, status_code, t)
      [] ep.status.tag = "JustOffCooldown" ->
            update_status_from_just_off_cooldown(ep, status_code, t)
      [] OTHER -> update_status_from_normal(ep, status_code, t)

\* Endpoint::update_status_from_response_code : the set of possible results
update_status_from_response_code(ep, status_code, t) ==
    CASE ep.status.tag = "Normal" -> update_status_from_normal(ep, status_code, t)
      [] ep.status.tag = "Unkown" -> update_status_from_unknown(ep, status_code, t)
      [] ep.status.tag = "JustOffCooldown" ->
            update_status_from_just_off_cooldown(ep, status_code, t)
      [] OTHER -> {ep}

\* Endpoint::can_query
can_query(ep) == ep.status.tag \in {"Normal", "Unkown", "JustOffCooldown"}

\* ---- methods of Endpoint that Context calls and endpoint/mod.rs lacks ----
\* update_status_200 / update_status_400 : the status update for a 200 and
\* for a 429 (update_status_from_response_code with that code)
update_status_200(ep, t) == update_status_from_response_code(ep, OK, t)

update_status_400_panics(ep) ==
    update_status_from_response_code_panics(ep, TOO_MANY_REQUESTS)

update_status_400(ep, t) ==
    update_status_from_response_code(ep, TOO_MANY_REQUESTS, t)

\* last_update_time
last_update_time(ep) == ep.last_update_timestamp_ms

\* force_cd : unconditionally Cooldown{start = now, duration}
force_cd(ep, duration, t) ==
    [ep EXCEPT !.status = Cooldown(CooldownState_new(duration, t))]

\* most_likely_cd : Some(<<headroom, window>>) of the bucket with the smallest
\* headroom max_count - count, ties broken by the smallest window; else None
most_likely_cd(ep) ==
    LET b == ep.rate_limit_buckets
        headroom(w) == b[w].max_count - b[w].count
    IN  IF DOMAIN b = {} THEN None
        ELSE LET w0 == CHOOSE w \in DOMAIN b :
                          \A v \in DOMAIN b :
                              \/ headroom(w) < headroom(v)
                              \/ headroom(w) = headroom(v) /\ w <= v
             IN  Some(<< headroom(w0), w0 >>)

\* ------------------------------------------------------ lol_api/errors.rs
\* Result values: Ok, or an Error of one of the kinds below
OkResult == [ok |-> TRUE, kind |-> "Ok", status |-> Unkown, code |-> 0]

\* ErrorKind::EndpointNotReady(status) (From<Status> for ErrorKind)
EndpointNotReady(status) ==
    [ok |-> FALSE, kind |-> "EndpointNotReady", status |-> status, code |-> 0]

\* ErrorKind::Reqwest of a non-2xx status (Response::error_for_status)
ReqwestStatus(code) ==
    [ok |-> FALSE, kind |-> "Reqwest", status |-> Unkown, code |-> code]

\* ErrorKind::Reqwest of a failed send
ReqwestTransport == [ok |-> FALSE, kind |-> "Reqwest", status |-> Unkown, code |-> 0]

\* ErrorKind::Msg of get_header_as_str / get_header_as_rate_limit
HeaderError == [ok |-> FALSE, kind |-> "Msg", status |-> Unkown, code |-> 0]

\* a task that panicked has no result
NoResult == [ok |-> FALSE, kind |-> "None", status |-> Unkown, code |-> 0]

\* Error::retry_time
retry_time(e, t) ==
    IF e.kind = "EndpointNotReady"
    THEN IF e.status.tag = "Cooldown" THEN time_left(e.status, t) ELSE None
    ELSE None

\* Error::can_retry
can_retry(e, t) == retry_time(e, t).some

\* Endpoint::error_for_status (called by Context, absent from
\* endpoint/mod.rs): Ok unless the status is Cooldown, then EndpointNotReady
\* carrying a clone of the status
error_for_status(ep) ==
    IF can_query(ep) THEN OkResult ELSE EndpointNotReady(ep.status)

\* ------------------------------------------------------- lol_api/mod.rs
\* HashMap::entry(id).or_insert(Endpoint::new())
or_insert(tbl, id) ==
    IF id \in DOMAIN tbl THEN tbl
    ELSE [x \in (DOMAIN tbl) \cup {id} |->
              IF x = id THEN Endpoint_new ELSE tbl[x]]

\* Context::prepare_to_query, the loop from index i on: the table it leaves
\* and the Result it returns (the first error ends the loop)
RECURSIVE prepare_loop(_, _, _, _)
prepare_loop(tbl, ids, i, t) ==
    IF i > Len(ids) THEN [tbl |-> tbl, res |-> OkResult]
    ELSE LET id == ids[i]
             tbl1 == or_insert(tbl, id)
             ep == update_status_pre_query(tbl1[id], t)
             tbl2 == [tbl1 EXCEPT ![id] = ep]
         IN  IF error_for_status(ep).ok
             THEN prepare_loop(tbl2, ids, i + 1, t)
             ELSE [tbl |-> tbl2, res |-> error_for_status(ep)]

\* an admission that lets one request at a time through: the region is put
\* in Cooldown when the request is admitted
prepare_to_query_exclusive(tbl, ids, t) ==
    LET out == prepare_loop(tbl, ids, 1, t)
    IN  IF out.res.ok
        THEN [out EXCEPT !.tbl[ids[1]] = force_cd(out.tbl[ids[1]], 1, t)]
        ELSE out

prepare_to_query(tbl, ids, t) == prepare_loop(tbl, ids, 1, t)

\* A rate-limit header pair of a response as get_header_as_rate_limit
\* returns it: ok = FALSE when either header is missing or does not parse
HeaderNotFull == [ok |-> TRUE, limits |-> << <<2, 1>> >>, counts |-> << <<1, 1>> >>]
HeaderFull == [ok |-> TRUE, limits |-> << <<2, 1>> >>, counts |-> << <<2, 1>> >>]
HeaderTwoFull ==
    [ok |-> TRUE, limits |-> << <<2, 1>>, <<3, 2>> >>,
                  counts |-> << <<2, 1>>, <<3, 2>> >>]
HeaderNone == [ok |-> FALSE, limits |-> << >>, counts |-> << >>]

AppHeaders == {HeaderNotFull, HeaderFull, HeaderTwoFull}
MethodHeaders == {HeaderNotFull, HeaderFull}

NoResponse == [status |-> 0, date |-> 0, app |-> HeaderNone, method |-> HeaderNone]

\* the responses the server may give to a GET sent at time t
Responses(t) ==
    { [status |-> OK, date |-> t, app |-> a, method |-> m] :
          a \in AppHeaders, m \in MethodHeaders }
    \cup { [status |-> c, date |-> t, app |-> HeaderNone, method |-> HeaderNone] :
          c \in {TOO_MANY_REQUESTS, INTERNAL_SERVER_ERROR} }

\* a check that takes every response for newer
response_always_newer(response_dt, ep) == TRUE

\* "(response_dt - ep.last_update_time()) > chrono::Duration::zero()"
response_is_newer(response_dt, ep) == response_dt - last_update_time(ep) > 0

\* Context::cache_rate_limits, the loop from index i on: the table it leaves
\* and how it ends ("ok", "err" for a header error, "panic")
RECURSIVE cache_loop(_, _, _, _, _)
cache_loop(tbl, response, ids, i, t) ==
    IF i > Len(ids) THEN [tbl |-> tbl, end |-> "ok"]
    ELSE LET id == ids[i]
             hdr == IF is_region(id) THEN response.app ELSE response.method
         IN  IF ~ (is_region(id) \/ is_method(id))
             THEN cache_loop(tbl, response, ids, i + 1, t)
             ELSE IF id \notin DOMAIN tbl THEN [tbl |-> tbl, end |-> "panic"]
             ELSE IF ~ response_is_newer(response.date, tbl[id])
             THEN cache_loop(tbl, response, ids, i + 1, t)
             ELSE IF ~ hdr.ok THEN [tbl |-> tbl, end |-> "err"]
             ELSE IF update_buckets_panics(hdr.limits, hdr.counts)
             THEN [tbl |-> tbl, end |-> "panic"]
             ELSE cache_loop(
                     [tbl EXCEPT ![id] = update_buckets(
                         tbl[id], hdr.limits, hdr.counts, response.date, t)],
                     response, ids, i + 1, t)

cache_rate_limits(tbl, response, ids, t) == cache_loop(tbl, response, ids, 1, t)

\* Context::handle_status_transitions, the loop "for id in endpoint_ids"
\* that applies the status update of status_code to every endpoint: the set of
\* possible outcomes (table, panicked or not)
RECURSIVE update_all(_, _, _, _, _)
update_all(tbl, status_code, ids, i, t) ==
    IF i > Len(ids) THEN { [tbl |-> tbl, panic |-> FALSE] }
    ELSE LET id == ids[i]
         IN  IF id \notin DOMAIN tbl
                \/ update_status_from_response_code_panics(tbl[id], status_code)
             THEN { [tbl |-> tbl, panic |-> TRUE] }
             ELSE UNION { update_all([tbl EXCEPT ![id] = ep], status_code,
                                     ids, i + 1, t) :
                          ep \in IF status_code = OK
                                 THEN update_status_200(tbl[id], t)
                                 ELSE update_status_400(tbl[id], t) }

\* the first endpoint that has a bucket, whatever its until_cd
likely_cd_index_first(tbl, ids) ==
    LET known == { i \in 1..Len(ids) : most_likely_cd(tbl[ids[i]]).some }
    IN  IF known = {} THEN 0
        ELSE CHOOSE i \in known : \A j \in known : i <= j

\* the index in ids of the endpoint chosen as "most likely to cd": the first
\* one with the strictly smallest until_cd; 0 when none has a bucket
likely_cd_index(tbl, ids) ==
    LET known == { i \in 1..Len(ids) : most_likely_cd(tbl[ids[i]]).some }
        until(i) == most_likely_cd(tbl[ids[i]]).val[1]
    IN  IF known = {} THEN 0
        ELSE CHOOSE i \in known :
                 \A j \in known : until(i) < until(j) \/ (until(i) = until(j) /\ i <= j)

DEFAULT_CD_SECS == 15

\* the "if !already_cd" block with an else branch that cools down only the
\* first endpoint
force_stopgap_cd_first_only(tbl, ids, t) ==
    LET already_cd == \E i \in 1..Len(ids) : tbl[ids[i]].status.tag = "Cooldown"
        k == likely_cd_index(tbl, ids)
    IN  IF already_cd THEN tbl
        ELSE IF k # 0
        THEN [tbl EXCEPT ![ids[k]] =
                 force_cd(tbl[ids[k]], most_likely_cd(tbl[ids[k]]).val[2], t)]
        ELSE [tbl EXCEPT ![ids[1]] = force_cd(tbl[ids[1]], DEFAULT_CD_SECS, t)]

\* the "if !already_cd" block: force a stopgap cooldown
force_stopgap_cd(tbl, ids, t) ==
    LET already_cd == \E i \in 1..Len(ids) : tbl[ids[i]].status.tag = "Cooldown"
        k == likely_cd_index(tbl, ids)
    IN  IF already_cd THEN tbl
        ELSE IF k # 0
        THEN [tbl EXCEPT ![ids[k]] =
                 force_cd(tbl[ids[k]], most_likely_cd(tbl[ids[k]]).val[2], t)]
        ELSE [x \in DOMAIN tbl |->
                 IF \E i \in 1..Len(ids) : ids[i] = x
                 THEN force_cd(tbl[x], DEFAULT_CD_SECS, t) ELSE tbl[x]]

\* the closing "now get most likely error": collect() of the
\* error_for_status of every endpoint returns the first Err in id order
collect_errors(tbl, ids) ==
    LET bad == { i \in 1..Len(ids) : ~ error_for_status(tbl[ids[i]]).ok }
    IN  IF bad = {} THEN OkResult
        ELSE error_for_status(tbl[ids[CHOOSE i \in bad : \A j \in bad : i <= j]])

\* a handler that treats every status other than 200 as a 429
handle_status_transitions_any_error(tbl, status_code, ids, t) ==
    LET code == IF status_code = OK THEN OK ELSE TOO_MANY_REQUESTS
    IN  { IF o.panic THEN [tbl |-> o.tbl, panic |-> TRUE, res |-> NoResult]
          ELSE LET tbl2 == IF code = TOO_MANY_REQUESTS
                           THEN force_stopgap_cd(o.tbl, ids, t) ELSE o.tbl
               IN  [tbl |-> tbl2, panic |-> FALSE, res |-> collect_errors(tbl2, ids)]
          : o \in update_all(tbl, code, ids, 1, t) }

\* Context::handle_status_transitions : the set of possible outcomes
handle_status_transitions(tbl, status_code, ids, t) ==
    IF status_code \notin {OK, TOO_MANY_REQUESTS}
    THEN { [tbl |-> tbl, panic |-> FALSE, res |-> collect_errors(tbl, ids)] }
    ELSE { IF o.panic THEN [tbl |-> o.tbl, panic |-> TRUE, res |-> NoResult]
           ELSE LET tbl2 == IF status_code = TOO_MANY_REQUESTS
                            THEN force_stopgap_cd(o.tbl, ids, t) ELSE o.tbl
                IN  [tbl |-> tbl2, panic |-> FALSE, res |-> collect_errors(tbl2, ids)]
           : o \in update_all(tbl, status_code, ids, 1, t) }

\* Response::error_for_status of reqwest
response_error_for_status(response) ==
    IF response.status = OK THEN OkResult ELSE ReqwestStatus(response.status)

\* ---------------------------------------------------------------- state
VARIABLES
    now,        \* the clock (seconds)
    endpoints,  \* ContextInner.endpoints : HashMap<Id, Endpoint>
    lock,       \* the request holding the endpoints mutex, 0 when free
    pc,         \* where each request (one query_* call) stands
    local,      \* the locals of each request
    server,     \* the rate-limit window of the server the Context talks to
    found_match_ids,  \* CrawlerInner.found_match_ids : HashSet<i64>
    ids_lock,   \* the walker holding the found_match_ids mutex, 0 when free
    file_out,   \* CrawlerInner.file_out : the lines written, with their writer
    file_lock,  \* the walker holding the file_out mutex, 0 when free
    walker      \* where each walker (one start_crawl call) stands, its locals

crawler_vars == << found_match_ids, ids_lock, file_out, file_lock, walker >>

context_vars == << now, endpoints, lock, pc, local, server >>

vars == << now, endpoints, lock, pc, local, server, found_match_ids,
           ids_lock, file_out, file_lock, walker >>

Requests == 1..NumRequests

\* retry_count arguments the callers of the model pass
RetryCounts == {RetryCountMax}

Walkers == 1..NumWalkers

\* a walker before start_crawl is called
InitWalker ==
    [ pc |-> "start", num_steps |-> 0, i |-> 0, seeded |-> FALSE,
      match_id |-> 0, matchlist |-> << >>, found |-> None,
      reserved |-> << >>, fetched |-> 0, emitted |-> 0 ]

\* the server's rate-limit window before the first request: it opens
\* with the clock
ServerInit == [start |-> 1, count |-> 0]

InitLocal ==
    [ method |-> 0, retry_count |-> 0, iter |-> 0, invocations |-> 0,
      failed |-> 0, response |-> NoResponse, status_code |-> 0, res |-> NoResult, wake |-> 0 ]

\* Context::new : an empty endpoint table; the clock starts after the epoch
Init ==
    /\ now = 1
    /\ endpoints = [x \in {} |-> Endpoint_new]
    /\ lock = 0
    /\ pc = [r \in Requests |-> "start"]
    /\ \E m \in MethodIdx :
          local = [r \in Requests |-> [InitLocal EXCEPT !.method = m]]
    /\ server = ServerInit
    /\ found_match_ids = {}
    /\ ids_lock = 0
    /\ file_out = << >>
    /\ file_lock = 0
    /\ walker = [w \in Walkers |-> InitWalker]

ids_of(r) == endpoint_ids(local[r].method)

\* query_with_retry(retry_count, query_func) with retry_count drawn from
\* counts : the first query_func()
CallWith(r, counts) ==
    /\ pc[r] = "start"
    /\ \E n \in counts :
          local' = [local EXCEPT ![r] = [@ EXCEPT
                        !.retry_count = n, !.invocations = 1]]
    /\ pc' = [pc EXCEPT ![r] = "prepare"]
    /\ UNCHANGED << now, endpoints, lock >>
    /\ UNCHANGED << server, crawler_vars >>

\* a query_* call of Context
Call(r) == CallWith(r, RetryCounts)

\* inner.endpoints.lock().await of prepare_to_query
AcquirePrepare(r) ==
    /\ pc[r] = "prepare"
    /\ lock = 0
    /\ lock' = r
    /\ pc' = [pc EXCEPT ![r] = "prepare_locked"]
    /\ UNCHANGED << now, endpoints, local >>
    /\ UNCHANGED << server, crawler_vars >>

\* a guard that outlives the handler: the lock stays with the request
keep_guard(r) == r

\* the mutex guard of a handler is dropped when the handler returns: the
\* holder of the lock afterwards
release_guard(r) == 0

\* Context::prepare_to_query under the lock, to its return
PrepareToQuery(r) ==
    /\ pc[r] = "prepare_locked"
    /\ LET out == prepare_to_query(endpoints, ids_of(r), now)
       IN  /\ endpoints' = out.tbl
           /\ IF out.res.ok
              THEN /\ pc' = [pc EXCEPT ![r] = "send"]
                   /\ local' = local
              ELSE /\ pc' = [pc EXCEPT ![r] = "returned"]
                   /\ local' = [local EXCEPT ![r].res = out.res]
    /\ lock' = release_guard(r)
    /\ UNCHANGED now
    /\ UNCHANGED << server, crawler_vars >>

\* send_query : client.get(uri).send().await; the server answers, or the
\* transport fails
SendQuery(r) ==
    /\ pc[r] = "send"
    /\ \/ \E resp \in Responses(now) :
             /\ local' = [local EXCEPT ![r].response = resp,
                                       ![r].status_code = resp.status]
             /\ pc' = [pc EXCEPT ![r] = "await"]
       \/ /\ local' = [local EXCEPT ![r].res = ReqwestTransport]
          /\ pc' = [pc EXCEPT ![r] = "returned"]
    /\ UNCHANGED << now, endpoints, lock >>
    /\ UNCHANGED << server, crawler_vars >>

\* handle_response, 200 : inner.endpoints.lock().await of cache_rate_limits
AcquireCache(r) ==
    /\ pc[r] = "await"
    /\ local[r].response.status = OK
    /\ lock = 0
    /\ lock' = r
    /\ pc' = [pc EXCEPT ![r] = "cache_locked"]
    /\ UNCHANGED << now, endpoints, local >>
    /\ UNCHANGED << server, crawler_vars >>

\* Context::cache_rate_limits under the lock, to its return
CacheRateLimits(r) ==
    /\ pc[r] = "cache_locked"
    /\ LET out == cache_rate_limits(endpoints, local[r].response, ids_of(r), now)
       IN  /\ endpoints' = out.tbl
           /\ CASE out.end = "ok" ->
                     /\ pc' = [pc EXCEPT ![r] = "transition"]
                     /\ local' = local
                [] out.end = "err" ->
                     /\ pc' = [pc EXCEPT ![r] = "returned"]
                     /\ local' = [local EXCEPT ![r].res = HeaderError,
                                               ![r].response = NoResponse]
                [] OTHER ->
                     /\ pc' = [pc EXCEPT ![r] = "panicked"]
                     /\ local' = [local EXCEPT ![r].response = NoResponse]
    /\ lock' = release_guard(r)
    /\ UNCHANGED now
    /\ UNCHANGED << server, crawler_vars >>

\* inner.endpoints.lock().await of handle_status_transitions
AcquireTransition(r) ==
    /\ \/ pc[r] = "transition"
       \/ pc[r] = "await" /\ local[r].response.status # OK
    /\ lock = 0
    /\ lock' = r
    /\ pc' = [pc EXCEPT ![r] = "transition_locked"]
    /\ UNCHANGED << now, endpoints, local >>
    /\ UNCHANGED << server, crawler_vars >>

\* Context::handle_status_transitions under the lock, then the rest of
\* handle_response and of _try_query_* (the body of a 200 decodes)
HandleStatusTransitions(r) ==
    /\ pc[r] = "transition_locked"
    /\ \E o \in handle_status_transitions(
                    endpoints, local[r].response.status, ids_of(r), now) :
          /\ endpoints' = o.tbl
          /\ IF o.panic
             THEN /\ pc' = [pc EXCEPT ![r] = "panicked"]
                  /\ local' = [local EXCEPT ![r].response = NoResponse]
             ELSE /\ pc' = [pc EXCEPT ![r] = "returned"]
                  /\ local' = [local EXCEPT
                        ![r].res = IF o.res.ok
                                   THEN response_error_for_status(local[r].response)
                                   ELSE o.res,
                        ![r].response = NoResponse]
    /\ lock' = release_guard(r)
    /\ UNCHANGED now
    /\ UNCHANGED << server, crawler_vars >>

\* Result::chain_err(|| "Retry count exceeded")
chain_err(res) == IF res.ok THEN res ELSE [res EXCEPT !.kind = "RetryCountExceeded"]

\* the next query_func() of the retry loop
reinvoke(l) ==
    [l EXCEPT !.iter = l.iter + 1, !.invocations = l.invocations + 1,
              !.status_code = 0, !.res = NoResult, !.wake = 0]

\* the loop bound 0..=retry_count, one turn more
loop_inclusive(l) == l.iter <= l.retry_count

\* "for _ in 0..retry_count" : TRUE while the loop has a turn left
loop_continues(l) == l.iter < l.retry_count

\* Context::query_with_retry : one turn of "for _ in 0..retry_count" on the
\* result of the last query_func(), or the return after the loop
RetryStep(r) ==
    /\ pc[r] = "returned"
    /\ LET l == local[r]
           f == IF l.res.ok THEN l.failed ELSE l.failed + 1
       IN  IF loop_continues(l)
           THEN IF l.res.ok
                THEN /\ pc' = [pc EXCEPT ![r] = "done"]
                     /\ local' = local
                ELSE IF can_retry(l.res, now)
                THEN /\ pc' = [pc EXCEPT ![r] = "sleeping"]
                     /\ local' = [local EXCEPT
                                     ![r].wake = now + retry_time(l.res, now).val,
                                     ![r].failed = f]
                ELSE /\ pc' = [pc EXCEPT ![r] = "prepare"]
                     /\ local' = [local EXCEPT ![r] = reinvoke([l EXCEPT !.failed = f])]
           ELSE /\ pc' = [pc EXCEPT ![r] = "done"]
                /\ local' = [local EXCEPT ![r].res = chain_err(l.res),
                                          ![r].failed = f]
    /\ UNCHANGED << now, endpoints, lock >>
    /\ UNCHANGED << server, crawler_vars >>

\* a delay that is over at once
delay_skipped(l, t) == TRUE

\* tokio::time::delay_for(retry_time).await returns once the clock has
\* reached the instant the delay was set to end at
delay_elapsed(l, t) == t >= l.wake

\* tokio::time::delay_for(retry_time) is over; the loop calls query_func()
Wake(r) ==
    /\ pc[r] = "sleeping"
    /\ delay_elapsed(local[r], now)
    /\ pc' = [pc EXCEPT ![r] = "prepare"]
    /\ local' = [local EXCEPT ![r] = reinvoke(local[r])]
    /\ UNCHANGED << now, endpoints, lock >>
    /\ UNCHANGED << server, crawler_vars >>

\* a second passes, up to the instant max
TickTo(max) ==
    /\ now < max
    /\ lock = 0
    /\ now' = now + 1
    /\ UNCHANGED << endpoints, lock, pc, local >>
    /\ UNCHANGED << server, crawler_vars >>

Tick == TickTo(MaxTime)

Next ==
    \/ \E r \in Requests : Call(r)
    \/ \E r \in Requests : AcquirePrepare(r)
    \/ \E r \in Requests : PrepareToQuery(r)
    \/ \E r \in Requests : SendQuery(r)
    \/ \E r \in Requests : AcquireCache(r)
    \/ \E r \in Requests : CacheRateLimits(r)
    \/ \E r \in Requests : AcquireTransition(r)
    \/ \E r \in Requests : HandleStatusTransitions(r)
    \/ \E r \in Requests : RetryStep(r)
    \/ \E r \in Requests : Wake(r)
    \/ Tick

Spec == Init /\ [][Next]_vars

\* ------------------------------------------------- the retry loop alone
\* query_with_retry is generic in query_func: here query_func is any
\* operation, returning Ok or any Error, and the loop is the one of Spec.
CallRetry(r) == CallWith(r, 0..MaxAttempts)

\* the results a query_func() returning at time t may give
OpResults(t) ==
    { OkResult, ReqwestStatus(INTERNAL_SERVER_ERROR), ReqwestTransport }
    \cup { EndpointNotReady(Cooldown([start |-> s, duration |-> d])) :
              s \in 0..t, d \in 0..2 }

OpReturns(r) ==
    /\ pc[r] = "prepare"
    /\ \E res \in OpResults(now) :
          local' = [local EXCEPT ![r].res = res]
    /\ pc' = [pc EXCEPT ![r] = "returned"]
    /\ UNCHANGED << now, endpoints, lock >>
    /\ UNCHANGED << server, crawler_vars >>

NextRetry ==
    \/ \E r \in Requests : CallRetry(r)
    \/ \E r \in Requests : OpReturns(r)
    \/ \E r \in Requests : RetryStep(r)
    \/ \E r \in Requests : Wake(r)
    \/ Tick

SpecRetry == Init /\ [][NextRetry]_vars

\* ------------------------------------- a server with a windowed limit
\* The server of the rate-limit tests: it admits ServerLimit requests in
\* each window of ServerWindow seconds, answers 200 with the limit and the
\* count so far of the window in the App and Method headers, answers 429
\* once the window is full, and opens a new window when the last has ended.
TEST_RETRY_COUNT == 3

server_window(srv, t) ==
    IF t - srv.start >= ServerWindow THEN [start |-> t, count |-> 0] ELSE srv

ServerHeader(count) ==
    [ok |-> TRUE, limits |-> << <<ServerLimit, ServerWindow>> >>,
                  counts |-> << <<count, ServerWindow>> >>]

server_response(srv, t) ==
    LET w == server_window(srv, t)
    IN  IF w.count < ServerLimit
        THEN [status |-> OK, date |-> t,
              app |-> ServerHeader(w.count + 1), method |-> ServerHeader(w.count + 1)]
        ELSE [status |-> TOO_MANY_REQUESTS, date |-> t,
              app |-> HeaderNone, method |-> HeaderNone]

server_after(srv, t) ==
    LET w == server_window(srv, t)
    IN  IF w.count < ServerLimit THEN [w EXCEPT !.count = @ + 1] ELSE w

\* send_query : client.get(uri).send().await, answered by the server
SendQueryServer(r) ==
    /\ pc[r] = "send"
    /\ local' = [local EXCEPT ![r].response = server_response(server, now),
                              ![r].status_code = server_response(server, now).status]
    /\ server' = server_after(server, now)
    /\ pc' = [pc EXCEPT ![r] = "await"]
    /\ UNCHANGED << now, endpoints, lock, crawler_vars >>

\* test_rate_limit_backoff_serial : each query is awaited before the next
CallSerial(r) ==
    /\ \A q \in Requests : q < r => pc[q] = "done"
    /\ CallWith(r, {TEST_RETRY_COUNT})

\* test_rate_limit_backoff_concurrent : the queries of one tokio::join!
CallConcurrent(r) == CallWith(r, {TEST_RETRY_COUNT})

\* a second passes while the tests run
TickTest == TickTo(MaxTestTime)

NextSerial ==
    \/ \E r \in Requests : CallSerial(r)
    \/ \E r \in Requests : AcquirePrepare(r)
    \/ \E r \in Requests : PrepareToQuery(r)
    \/ \E r \in Requests : SendQueryServer(r)
    \/ \E r \in Requests : AcquireCache(r)
    \/ \E r \in Requests : CacheRateLimits(r)
    \/ \E r \in Requests : AcquireTransition(r)
    \/ \E r \in Requests : HandleStatusTransitions(r)
    \/ \E r \in Requests : RetryStep(r)
    \/ \E r \in Requests : Wake(r)
    \/ TickTest

SpecSerial == Init /\ [][NextSerial]_vars

NextConcurrent ==
    \/ \E r \in Requests : CallConcurrent(r)
    \/ \E r \in Requests : AcquirePrepare(r)
    \/ \E r \in Requests : PrepareToQuery(r)
    \/ \E r \in Requests : SendQueryServer(r)
    \/ \E r \in Requests : AcquireCache(r)
    \/ \E r \in Requests : CacheRateLimits(r)
    \/ \E r \in Requests : AcquireTransition(r)
    \/ \E r \in Requests : HandleStatusTransitions(r)
    \/ \E r \in Requests : RetryStep(r)
    \/ \E r \in Requests : Wake(r)
    \/ TickTest

SpecConcurrent == Init /\ [][NextConcurrent]_vars

\* ------------------------------------------------ update_buckets alone
\* Endpoint::update_buckets applied to the region endpoint with any limit
\* and count lists a response may carry, dated now: up to MaxPairs pairs
\* each, limits and windows up to MaxLimit, counts up to MaxLimit + 1.
SeqsUpTo(S, n) == UNION { [1..k -> S] : k \in 0..n }

LimitLists == SeqsUpTo((1..MaxLimit) \X (1..MaxLimit), MaxPairs)

CountLists == SeqsUpTo((0..MaxLimit + 1) \X (1..MaxLimit), MaxPairs)

UpdateBuckets(r) ==
    /\ pc[r] = "start"
    /\ \E limits \in LimitLists, counts \in CountLists :
          LET id == from_region(Na1)
              tbl == or_insert(endpoints, id)
              timestamp == now
          IN  IF update_buckets_panics(limits, counts)
              THEN /\ pc' = [pc EXCEPT ![r] = "panicked"]
                   /\ endpoints' = tbl
              ELSE /\ pc' = pc
                   /\ endpoints' = [tbl EXCEPT ![id] =
                          update_buckets(tbl[id], limits, counts, timestamp, now)]
    /\ UNCHANGED << now, lock, local >>
    /\ UNCHANGED << server, crawler_vars >>

NextBuckets ==
    \/ \E r \in Requests : UpdateBuckets(r)
    \/ Tick

SpecBuckets == Init /\ [][NextBuckets]_vars

\* ------------------------------------------ 200 responses, any headers
\* The requests of Spec against a server whose 200 responses may lack a
\* rate-limit header or carry a count for a window that has no limit.

\* a count header naming a window the limit header does not name
HeaderMismatch == [ok |-> TRUE, limits |-> << <<2, 1>> >>, counts |-> << <<1, 2>> >>]

ResponsesAnyHeaders(t) ==
    { [status |-> OK, date |-> t, app |-> a, method |-> m] :
          a \in {HeaderNotFull, HeaderFull, HeaderNone},
          m \in {HeaderNotFull, HeaderNone, HeaderMismatch} }

\* send_query : client.get(uri).send().await, answered with some 200
SendQueryAnyHeaders(r) ==
    /\ pc[r] = "send"
    /\ \E resp \in ResponsesAnyHeaders(now) :
          /\ local' = [local EXCEPT ![r].response = resp,
                                    ![r].status_code = resp.status]
          /\ pc' = [pc EXCEPT ![r] = "await"]
    /\ UNCHANGED << now, endpoints, lock >>
    /\ UNCHANGED << server, crawler_vars >>

NextHeaders ==
    \/ \E r \in Requests : Call(r)
    \/ \E r \in Requests : AcquirePrepare(r)
    \/ \E r \in Requests : PrepareToQuery(r)
    \/ \E r \in Requests : SendQueryAnyHeaders(r)
    \/ \E r \in Requests : AcquireCache(r)
    \/ \E r \in Requests : CacheRateLimits(r)
    \/ \E r \in Requests : AcquireTransition(r)
    \/ \E r \in Requests : HandleStatusTransitions(r)
    \/ \E r \in Requests : RetryStep(r)
    \/ \E r \in Requests : Wake(r)
    \/ Tick

SpecHeaders == Init /\ [][NextHeaders]_vars

\* ------------------------------------------------------ crawler/mod.rs
\* The walkers of do_main: start_crawl calls joined by tokio::join!, sharing
\* one CrawlerInner.  A query of the Context is taken by its outcome: Ok with
\* a payload, or the Err that query_with_retry returns.
MatchIds == 1..MaxMatchId

\* the game ids of a MatchlistDto
Matchlists == SeqsUpTo(MatchIds, MaxListLen)

\* tokio::try_join! : the first Err drops the futures still running
try_join_on_err(wk, w) ==
    [x \in DOMAIN wk |->
        IF x = w THEN [wk[x] EXCEPT !.pc = "failed"]
        ELSE IF wk[x].pc \in {"done", "failed"} THEN wk[x]
        ELSE [wk[x] EXCEPT !.pc = "cancelled"]]

\* tokio::join! : a future that returns Err is finished, the others are
\* polled on until each has finished
join_on_err(wk, w) == [wk EXCEPT ![w].pc = "failed"]

\* tokio::join! : a panic in one future unwinds the task that polls them
\* all; the futures that had not finished are dropped
join_on_panic(wk, w) ==
    [x \in DOMAIN wk |->
        IF x = w THEN [wk[x] EXCEPT !.pc = "panicked"]
        ELSE IF wk[x].pc \in {"done", "failed"} THEN wk[x]
        ELSE [wk[x] EXCEPT !.pc = "aborted"]]

\* start_crawl(seed_summoner_name, num_steps) :
\* query_summoner_v4_by_summoner_name(..).await.chain_err(..)?
StartCrawl(w) ==
    /\ walker[w].pc = "start"
    /\ \E n \in 0..MaxSteps :
          \/ walker' = [walker EXCEPT ![w].num_steps = n,
                                      ![w].pc = "matchlist"]
          \/ walker' = join_on_err([walker EXCEPT ![w].num_steps = n], w)
    /\ UNCHANGED << found_match_ids, ids_lock, file_out, file_lock >>
    /\ UNCHANGED context_vars

\* query_match_v4_matchlist_by_account(..).await? of start_crawl and of
\* do_crawl_work
QueryMatchlist(w) ==
    /\ walker[w].pc = "matchlist"
    /\ \/ \E list \in Matchlists :
             walker' = [walker EXCEPT ![w].matchlist = list,
                                      ![w].fetched = @ + 1,
                                      ![w].pc = "reserve"]
       \/ walker' = join_on_err(walker, w)
    /\ UNCHANGED << found_match_ids, ids_lock, file_out, file_lock >>
    /\ UNCHANGED context_vars

\* no guard: the mutex is left free
no_guard(w) == 0

\* the guard "inner.found_match_ids.lock().await" returns: the holder of the
\* mutex while the guard lives
lock_found_match_ids(w) == w

\* reserve_new_match_id : inner.found_match_ids.lock().await
AcquireFoundMatchIds(w) ==
    /\ walker[w].pc = "reserve"
    /\ ids_lock = 0
    /\ ids_lock' = lock_found_match_ids(w)
    /\ walker' = [walker EXCEPT ![w].pc = "reserve_locked"]
    /\ UNCHANGED << found_match_ids, file_out, file_lock >>
    /\ UNCHANGED context_vars

\* the first match of the list, seen or not
first_of_list(list, seen) ==
    IF list = << >> THEN None ELSE Some(list[1])

\* matches.iter().skip_while(|x| found_match_ids.contains(&x.game_id)).next()
first_unkown(list, seen) ==
    LET unkown == { k \in 1..Len(list) : list[k] \notin seen }
    IN  IF unkown = {} THEN None
        ELSE Some(list[CHOOSE k \in unkown : \A j \in unkown : k <= j])

\* reserve_new_match_id under the guard : the search for the first unseen id
ReserveFind(w) ==
    /\ walker[w].pc = "reserve_locked"
    /\ walker' = [walker EXCEPT
                     ![w].found = first_unkown(walker[w].matchlist, found_match_ids),
                     ![w].pc = "reserve_found"]
    /\ UNCHANGED << found_match_ids, ids_lock, file_out, file_lock >>
    /\ UNCHANGED context_vars

\* a guard that outlives reserve_new_match_id: the mutex stays with w
hold_found_match_ids_guard(w) == w

\* the guard found_match_ids goes out of scope when reserve_new_match_id
\* returns: the mutex is free
drop_found_match_ids_guard(w) == 0

\* reserve_new_match_id under the guard : the insert and the return, and the
\* .unwrap() of its caller, which panics on None
ReserveInsert(w) ==
    /\ walker[w].pc = "reserve_found"
    /\ LET wk == walker[w]
       IN  IF wk.found.some
           THEN /\ found_match_ids' = found_match_ids \cup {wk.found.val}
                /\ walker' = [walker EXCEPT ![w] = [wk EXCEPT
                       !.reserved = Append(@, wk.found.val),
                       !.match_id = wk.found.val,
                       !.found = None,
                       !.i = IF wk.seeded THEN @ + 1 ELSE 0,
                       !.seeded = TRUE,
                       !.pc = "loop"]]
           ELSE /\ found_match_ids' = found_match_ids
                /\ walker' = join_on_panic(walker, w)
    /\ ids_lock' = drop_found_match_ids_guard(w)
    /\ UNCHANGED << file_out, file_lock >>
    /\ UNCHANGED context_vars

\* a loop bound 0..=match_count, one turn more
crawl_one_more(i, match_count) == i <= match_count

\* "for i in 0..match_count" : TRUE while the loop has a turn left
crawl_continues(i, match_count) == i < match_count

\* do_crawl_work : the head of the loop and query_match_v4_match_by_id(..)
\* .await?, or Ok(()) after the loop
QueryMatch(w) ==
    /\ walker[w].pc = "loop"
    /\ IF crawl_continues(walker[w].i, walker[w].num_steps)
       THEN \/ walker' = [walker EXCEPT ![w].pc = "write"]
            \/ walker' = join_on_err(walker, w)
       ELSE walker' = [walker EXCEPT ![w].pc = "done"]
    /\ UNCHANGED << found_match_ids, ids_lock, file_out, file_lock >>
    /\ UNCHANGED context_vars

\* the guard "inner.file_out.lock().await" returns: the holder of the mutex
\* while the guard lives
lock_file_out(w) == w

\* write_match_to_file : the line is built, then inner.file_out.lock().await
AcquireFileOut(w) ==
    /\ walker[w].pc = "write"
    /\ file_lock = 0
    /\ file_lock' = lock_file_out(w)
    /\ walker' = [walker EXCEPT ![w].pc = "write_locked"]
    /\ UNCHANGED << found_match_ids, ids_lock, file_out >>
    /\ UNCHANGED context_vars

\* write_match_to_file under the guard : write_all(..).await?, and back in
\* do_crawl_work the test "i != (match_count - 1)" that decides whether a
\* next match is looked for
WriteMatch(w) ==
    /\ walker[w].pc = "write_locked"
    /\ LET wk == walker[w]
       IN  \/ /\ file_out' = Append(file_out, [walker |-> w, match_id |-> wk.match_id])
              /\ walker' = [walker EXCEPT ![w] =
                     IF wk.i # wk.num_steps - 1
                     THEN [wk EXCEPT !.emitted = @ + 1, !.pc = "matchlist"]
                     ELSE [wk EXCEPT !.emitted = @ + 1, !.i = @ + 1, !.pc = "loop"]]
           \/ /\ file_out' = file_out
              /\ walker' = join_on_err(walker, w)
    /\ file_lock' = 0
    /\ UNCHANGED << found_match_ids, ids_lock >>
    /\ UNCHANGED context_vars

NextCrawler ==
    \/ \E w \in Walkers : StartCrawl(w)
    \/ \E w \in Walkers : QueryMatchlist(w)
    \/ \E w \in Walkers : AcquireFoundMatchIds(w)
    \/ \E w \in Walkers : ReserveFind(w)
    \/ \E w \in Walkers : ReserveInsert(w)
    \/ \E w \in Walkers : QueryMatch(w)
    \/ \E w \in Walkers : AcquireFileOut(w)
    \/ \E w \in Walkers : WriteMatch(w)

SpecCrawler == Init /\ [][NextCrawler]_vars

\* ------------------------------------------------- main.rs : do_main
\* The walkers of do_main on one Context: walker w runs its queries as
\* request w of the Context, one at a time, against the server with a
\* windowed limit.

\* walker w has finished (returned, panicked, or was dropped)
Finished(w) ==
    walker[w].pc \in {"done", "failed", "panicked", "aborted", "cancelled"}

\* walker w stands at a query_* call of start_crawl or do_crawl_work
AtQuery(w) ==
    \/ walker[w].pc \in {"start", "matchlist"}
    \/ /\ walker[w].pc = "loop"
       /\ crawl_continues(walker[w].i, walker[w].num_steps)

\* context.query_*(Region::Na1, .., retry_count) is called
QueryBegin(w) ==
    /\ AtQuery(w)
    /\ Call(w)

\* a step of the query of walker w inside the Context
QueryStep(w) ==
    \/ ~ Finished(w) /\ AcquirePrepare(w)
    \/ ~ Finished(w) /\ PrepareToQuery(w)
    \/ ~ Finished(w) /\ SendQueryServer(w)
    \/ ~ Finished(w) /\ AcquireCache(w)
    \/ ~ Finished(w) /\ CacheRateLimits(w)
    \/ ~ Finished(w) /\ AcquireTransition(w)
    \/ ~ Finished(w) /\ HandleStatusTransitions(w)
    \/ ~ Finished(w) /\ RetryStep(w)
    \/ ~ Finished(w) /\ Wake(w)

\* context.query_*(..).await returns to the walker: "?" on an Err, the next
\* statement on Ok; a panic inside the query unwinds through the walker
QueryEnd(w) ==
    /\ AtQuery(w)
    /\ pc[w] \in {"done", "panicked"}
    /\ LET wk == walker[w]
           ok == pc[w] = "done" /\ local[w].res.ok
       IN  IF pc[w] = "panicked" THEN walker' = join_on_panic(walker, w)
           ELSE CASE wk.pc = "start" ->
                       \E n \in 0..MaxSteps :
                           walker' = IF ok
                                     THEN [walker EXCEPT ![w].num_steps = n,
                                                         ![w].pc = "matchlist"]
                                     ELSE join_on_err([walker EXCEPT ![w].num_steps = n], w)
                  [] wk.pc = "matchlist" ->
                       IF ok
                       THEN \E list \in Matchlists :
                               walker' = [walker EXCEPT ![w].matchlist = list,
                                                        ![w].fetched = @ + 1,
                                                        ![w].pc = "reserve"]
                       ELSE walker' = join_on_err(walker, w)
                  [] OTHER ->
                       walker' = IF ok THEN [walker EXCEPT ![w].pc = "write"]
                                 ELSE join_on_err(walker, w)
    /\ pc' = [pc EXCEPT ![w] = "start"]
    /\ local' = [local EXCEPT ![w] = [InitLocal EXCEPT !.method = local[w].method]]
    /\ UNCHANGED << now, endpoints, lock, server >>
    /\ UNCHANGED << found_match_ids, ids_lock, file_out, file_lock >>

\* do_crawl_work : the loop is over, Ok(())
CrawlEnd(w) ==
    /\ walker[w].pc = "loop"
    /\ ~ crawl_continues(walker[w].i, walker[w].num_steps)
    /\ walker' = [walker EXCEPT ![w].pc = "done"]
    /\ UNCHANGED << found_match_ids, ids_lock, file_out, file_lock >>
    /\ UNCHANGED context_vars

NextMain ==
    \/ \E w \in Walkers : QueryBegin(w)
    \/ \E w \in Walkers : QueryStep(w)
    \/ \E w \in Walkers : QueryEnd(w)
    \/ \E w \in Walkers : AcquireFoundMatchIds(w)
    \/ \E w \in Walkers : ReserveFind(w)
    \/ \E w \in Walkers : ReserveInsert(w)
    \/ \E w \in Walkers : AcquireFileOut(w)
    \/ \E w \in Walkers : WriteMatch(w)
    \/ \E w \in Walkers : CrawlEnd(w)
    \/ Tick

SpecMain == Init /\ [][NextMain]_vars

\* ------------------------------------------------------------ properties
Min(a, b) == IF a <= b THEN a ELSE b
Max(a, b) == IF a >= b THEN a ELSE b

\* the endpoints a request affects
Affected(r) == { ids_of(r)[i] : i \in 1..Len(ids_of(r)) }

\* a Cooldown whose duration has not yet elapsed since it started
LiveCooldown(status, t) ==
    status.tag = "Cooldown" /\ t - status.start < status.duration

\* the time left of a cooldown as documented: max(0, duration - (now - start))
Remaining(status, t) == Max(0, status.duration - (t - status.start))

HasFullBucket(ep) ==
    \E w \in DOMAIN ep.rate_limit_buckets :
        ep.rate_limit_buckets[w].count = ep.rate_limit_buckets[w].max_count

FullWindows(ep) ==
    { w \in DOMAIN ep.rate_limit_buckets :
        ep.rate_limit_buckets[w].count = ep.rate_limit_buckets[w].max_count }

\* the step in which request r ends its admission (prepare_to_query returns)
Admits(r) == pc[r] = "prepare_locked" /\ pc'[r] # "prepare_locked"

\* the step in which handle_status_transitions of request r runs for a 200
Observes200(r) ==
    /\ pc[r] = "transition_locked" /\ pc'[r] # "transition_locked"
    /\ local[r].response.status = OK

\* ... and for a 429
Observes429(r) ==
    /\ pc[r] = "transition_locked" /\ pc'[r] # "transition_locked"
    /\ local[r].response.status = TOO_MANY_REQUESTS

\* C1: an attempt whose admission finds an affected endpoint in a Cooldown
\* that has not yet elapsed sends nothing and fails with EndpointNotReady,
\* whose retry time is at most the cooldown's duration.
C1_LiveCooldownRejects ==
    [][ \A r \in Requests :
          ( /\ Admits(r)
            /\ \E id \in Affected(r) \cap DOMAIN endpoints :
                   LiveCooldown(endpoints[id].status, now) )
          => /\ pc'[r] = "returned"
             /\ local'[r].res.kind = "EndpointNotReady"
             /\ retry_time(local'[r].res, now').some
             /\ retry_time(local'[r].res, now').val
                    <= local'[r].res.status.duration ]_vars

\* C2: no request holds the endpoint-table mutex when it issues the GET or
\* while it awaits the response.
C2_NoLockAcrossIO ==
    \A r \in Requests : pc[r] \in {"send", "await"} => lock # r

\* a request awaits its response while another one is inside the table lock
C2_Witness ==
    \E r, q \in Requests : r # q /\ pc[r] = "await" /\ lock = q

\* C3: an attempt whose response is 200 OK returns success, also when the
\* response moves an endpoint into Cooldown.
C3_OkReturnsPayload ==
    \A r \in Requests :
        (pc[r] = "returned" /\ local[r].status_code = OK) => local[r].res.ok

C5_PreSendExpiry ==
    \A id \in DOMAIN endpoints :
        LET ep == endpoints[id]
            post == update_status_pre_query(ep, now)
        IN  IF ep.status.tag = "Cooldown"
            THEN IF now - ep.status.start >= ep.status.duration
                 THEN post.status = JustOffCooldown(ep.status.duration)
                 ELSE post = ep
            ELSE post = ep

\* the largest cap a Duration can hold
CAP == DurationMax

\* C6: a 429 applied to JustOffCooldown(d) gives Cooldown of duration
\* min(2d, CAP) and never overflows or aborts.
C6_ProbeDoublesSaturating ==
    [][ \A r \in Requests :
          Observes429(r)
          => /\ pc'[r] # "panicked"
             /\ \A id \in Affected(r) :
                   endpoints[id].status.tag = "JustOffCooldown"
                   => /\ endpoints'[id].status.tag = "Cooldown"
                      /\ endpoints'[id].status.duration
                            = Min(2 * endpoints[id].status.duration, CAP) ]_vars

\* C7 as stated: after a 429 has been processed an affected endpoint is in
\* Cooldown, and when no affected endpoint has a bucket all of them are in
\* Cooldown for 15 seconds.
C7_After429 ==
    [][ \A r \in Requests :
          (Observes429(r) /\ pc'[r] = "returned")
          => /\ \E id \in Affected(r) : endpoints'[id].status.tag = "Cooldown"
             /\ (\A id \in Affected(r) : endpoints[id].rate_limit_buckets = EmptyBuckets)
                => \A id \in Affected(r) :
                      /\ endpoints'[id].status.tag = "Cooldown"
                      /\ endpoints'[id].status.duration = DEFAULT_CD_SECS ]_vars

\* C7 amended: after a 429 has been processed an affected endpoint is in
\* Cooldown, and when no affected endpoint has a bucket and none was in
\* Cooldown or JustOffCooldown (so none is in Cooldown after the per-endpoint
\* 429 update), all of them are put in Cooldown, started now, for 15 seconds.
C7_After429Stopgap ==
    [][ \A r \in Requests :
          (Observes429(r) /\ pc'[r] = "returned")
          => /\ \E id \in Affected(r) : endpoints'[id].status.tag = "Cooldown"
             /\ (\A id \in Affected(r) :
                    /\ endpoints[id].rate_limit_buckets = EmptyBuckets
                    /\ endpoints[id].status.tag \in {"Unkown", "Normal"})
                => \A id \in Affected(r) :
                      endpoints'[id].status
                          = Cooldown(CooldownState_new(DEFAULT_CD_SECS, now)) ]_vars

\* a 429 has been processed and left every affected endpoint, none of which
\* has a bucket, in a Cooldown of 15 seconds started now
C7_Witness ==
    \E r \in Requests :
        /\ pc[r] = "returned" /\ local[r].status_code = TOO_MANY_REQUESTS
        /\ \A id \in Affected(r) :
              /\ endpoints[id].rate_limit_buckets = EmptyBuckets
              /\ endpoints[id].status
                     = Cooldown(CooldownState_new(DEFAULT_CD_SECS, now))

\* C8: an attempt that receives a 429 returns an error with can_retry() true
\* whose retry_time() is the cooldown of an affected endpoint.
C8_429IsRetryable ==
    [][ \A r \in Requests :
          (Observes429(r) /\ pc'[r] = "returned")
          => /\ ~ local'[r].res.ok
             /\ can_retry(local'[r].res, now')
             /\ \E id \in Affected(r) :
                   /\ endpoints'[id].status.tag = "Cooldown"
                   /\ retry_time(local'[r].res, now').val
                          = Remaining(endpoints'[id].status, now') ]_vars

\* C9: for an EndpointNotReady error can_retry() is true iff the carried status
\* is Cooldown with non-zero remaining time max(0, duration - (now - start)),
\* and retry_time() is that remaining time.
C9_RetryTimeIsRemaining ==
    \A r \in Requests :
        local[r].res.kind = "EndpointNotReady"
        => LET st == local[r].res.status
           IN  /\ can_retry(local[r].res, now)
                    <=> (st.tag = "Cooldown" /\ Remaining(st, now) > 0)
               /\ can_retry(local[r].res, now)
                    => retry_time(local[r].res, now).val = Remaining(st, now)

\* C10: query_with_retry invokes query_func at most retry_count + 1 times;
\* a query_func() that returns Ok ends the loop at once with that Ok; and a
\* call that ends Ok after k failed invocations, k <= retry_count, has invoked
\* query_func exactly k + 1 times.
C10_RetryInvocations ==
    /\ [](\A r \in Requests :
            /\ local[r].invocations <= local[r].retry_count + 1
            /\ (pc[r] = "done" /\ local[r].res.ok)
               => /\ local[r].failed <= local[r].retry_count
                  /\ local[r].invocations = local[r].failed + 1)
    /\ [][ \A r \in Requests :
             (pc[r] = "returned" /\ local[r].res.ok /\ pc'[r] # "returned")
             => /\ pc'[r] = "done"
                /\ local'[r].res.ok
                /\ local'[r].invocations = local[r].invocations ]_vars

\* retry(3, op): three failures that can be retried, then Ok: 4 invocations
C10_Witness ==
    \E r \in Requests :
        /\ pc[r] = "done" /\ local[r].res.ok
        /\ local[r].retry_count = 3
        /\ local[r].failed = 3
        /\ local[r].invocations = 4

\* C11: in the retry loop, a query_func() that fails with an error for which
\* can_retry() is false ends the call with that error at once: query_func
\* is not invoked again, whatever is left of retry_count.
C11_NonRetryableReturnsAtOnce ==
    [][ \A r \in Requests :
          ( /\ pc[r] = "returned" /\ pc'[r] # "returned"
            /\ ~ local[r].res.ok
            /\ ~ can_retry(local[r].res, now) )
          => /\ pc'[r] = "done"
             /\ local'[r].invocations = local[r].invocations
             /\ ~ local'[r].res.ok ]_vars

\* C12: in the retry loop, a query_func() that fails with a retryable error
\* is followed by a delay of the retry_time() the error reports, and
\* query_func is invoked again only once the clock has reached the end of
\* that delay.
C12_WaitsRetryTime ==
    [][ \A r \in Requests :
          /\ ( /\ pc[r] = "returned" /\ pc'[r] # "returned"
               /\ ~ local[r].res.ok
               /\ can_retry(local[r].res, now)
               /\ pc'[r] # "done" )
             => /\ pc'[r] = "sleeping"
                /\ local'[r].invocations = local[r].invocations
                /\ local'[r].wake = now + retry_time(local[r].res, now).val
          /\ (pc[r] = "sleeping" /\ pc'[r] # "sleeping")
             => /\ now >= local[r].wake
                /\ local'[r].invocations = local[r].invocations + 1 ]_vars

\* a request has waited out a retry_time() greater than zero, reported at
\* some earlier instant t0, and is about to invoke query_func again
C12_Witness ==
    \E r \in Requests :
        /\ pc[r] = "sleeping"
        /\ now >= local[r].wake
        /\ \E t0 \in 1..now :
              /\ t0 < local[r].wake
              /\ retry_time(local[r].res, t0).some
              /\ local[r].wake = t0 + retry_time(local[r].res, t0).val

\* C13: requests issued one after another with retry_count = 3 against the
\* server with a windowed limit all return Ok: none returns an error to its
\* caller and none panics.
C13_SerialRequestsReturnOk ==
    \A r \in Requests :
        /\ pc[r] = "done" => local[r].res.ok
        /\ pc[r] # "panicked"

\* C14: two requests issued concurrently on one Context with retry_count = 3
\* against the server with a windowed limit both return Ok: in no
\* interleaving does a request panic or return an error to its caller.
C14_ConcurrentRequestsReturnOk ==
    /\ ~ \E r \in Requests : pc[r] = "panicked"
    /\ ~ \E r \in Requests : pc[r] = "done" /\ ~ local[r].res.ok

\* the buckets an endpoint has when they come from the headers hdr alone,
\* folded in at time t
BucketsOf(hdr, date, t) ==
    update_buckets(Endpoint_new, hdr.limits, hdr.counts, date, t).rate_limit_buckets

\* the header pair cache_rate_limits reads for endpoint id
HeaderFor(response, id) == IF is_region(id) THEN response.app ELSE response.method

\* C15: cache_rate_limits of a 200 whose Date is older than an endpoint's
\* last update changes neither the buckets nor the last update of that
\* endpoint; a 200 whose Date is newer replaces them, so that whatever the
\* order of arrival the last update is the newest Date seen and the buckets
\* are those of the newest observation alone.
C15_StaleObservationIgnored ==
    [][ \A r \in Requests :
          (pc[r] = "cache_locked" /\ pc'[r] = "transition")
          => \A id \in Affected(r) :
                LET pre == endpoints[id]
                    post == endpoints'[id]
                    resp == local[r].response
                IN  /\ resp.date < pre.last_update_timestamp_ms => post = pre
                    /\ (is_region(id) \/ is_method(id))
                       => /\ post.last_update_timestamp_ms
                                = Max(pre.last_update_timestamp_ms, resp.date)
                          /\ resp.date > pre.last_update_timestamp_ms
                             => post.rate_limit_buckets
                                    = BucketsOf(HeaderFor(resp, id), resp.date, now) ]_vars

\* a 200 dated before the region endpoint's last update has been folded in
\* after a newer one, whose limits and counts differ from its own, and the
\* endpoint still holds the newer observation
C15_Witness ==
    \E r \in Requests :
        /\ pc[r] = "transition"
        /\ LET ep == endpoints[from_region(Na1)]
               resp == local[r].response
           IN  /\ resp.date < ep.last_update_timestamp_ms
               /\ ep.rate_limit_buckets # BucketsOf(resp.app, resp.date, now)
               /\ ep.rate_limit_buckets # EmptyBuckets

\* C16: after every update_buckets call every bucket of the endpoint has
\* 0 <= count <= max_count, whatever limit and count lists were passed.
C16_CountWithinLimit ==
    \A id \in DOMAIN endpoints :
        \A w \in DOMAIN endpoints[id].rate_limit_buckets :
            LET bucket == endpoints[id].rate_limit_buckets[w]
            IN  0 <= bucket.count /\ bucket.count <= bucket.max_count

\* every reservation made so far: (walker, index in its reserved list)
Reservations == { <<w, k>> : w \in Walkers, k \in 1..MaxSteps + 1 }
                    \cap { x \in Walkers \X (1..MaxSteps + 1) :
                              x[2] <= Len(walker[x[1]].reserved) }

\* the records of walker w in the output file
RecordsOf(w) == { k \in 1..Len(file_out) : file_out[k].walker = w }

\* C17: reserve_new_match_id returns the first id of the match list that is
\* not in found_match_ids as it is when the call returns, and inserts it;
\* it returns None only when every id of the list is in the set; and no two
\* reservations, of one walker or of two, are of the same match id.
C17_ReserveIsAtomic ==
    /\ [](\A x, y \in Reservations :
             x # y => walker[x[1]].reserved[x[2]] # walker[y[1]].reserved[y[2]])
    /\ [][ \A w \in Walkers :
             (walker[w].pc = "reserve_found" /\ walker'[w].pc # "reserve_found")
             => LET list == walker[w].matchlist
                    got == first_unkown(list, found_match_ids)
                IN  IF walker'[w].pc = "loop"
                    THEN /\ got.some
                         /\ walker'[w].match_id = got.val
                         /\ walker'[w].reserved = Append(walker[w].reserved, got.val)
                         /\ found_match_ids' = found_match_ids \cup {got.val}
                    ELSE /\ \A k \in 1..Len(list) : list[k] \in found_match_ids
                         /\ found_match_ids' = found_match_ids ]_vars

\* two walkers have reserved from the same match list, one its first id and
\* the other, finding that one seen, its second
C17_Witness ==
    \E w, v \in Walkers :
        /\ w # v
        /\ Len(walker[w].matchlist) = 2
        /\ walker[w].matchlist = walker[v].matchlist
        /\ walker[w].matchlist[1] # walker[w].matchlist[2]
        /\ walker[w].reserved = << walker[w].matchlist[1] >>
        /\ walker[v].reserved = << walker[v].matchlist[2] >>

\* C18: a walker whose match list holds no unseen id halts without a panic,
\* and the other walkers go on as they were.
C18_NoUnseenHaltsCleanly ==
    [][ \A w \in Walkers :
          ( /\ walker[w].pc = "reserve_found" /\ walker'[w].pc # "reserve_found"
            /\ ~ walker[w].found.some )
          => /\ walker'[w].pc # "panicked"
             /\ \A v \in Walkers \ {w} : walker'[v] = walker[v]
             /\ file_out' = file_out ]_vars

\* C19: a walker never emits more than num_steps records, and start_crawl
\* returns Ok only when the walker has emitted exactly num_steps records;
\* after the record of step i it fetches a match list and reserves an id
\* when i < num_steps - 1 and does neither after the last step.
C19_EmitsExactlyNumSteps ==
    /\ [](\A w \in Walkers :
            /\ walker[w].emitted <= walker[w].num_steps
            /\ walker[w].emitted = Cardinality(RecordsOf(w))
            /\ walker[w].pc = "done"
               => /\ walker[w].emitted = walker[w].num_steps
                  /\ walker[w].fetched = 1 + Max(walker[w].num_steps - 1, 0)
                  /\ Len(walker[w].reserved) = walker[w].fetched)
    /\ [][ \A w \in Walkers :
             (walker[w].pc = "write_locked" /\ walker'[w].emitted = walker[w].emitted + 1)
             => IF walker[w].i < walker[w].num_steps - 1
                THEN walker'[w].pc = "matchlist"
                ELSE walker'[w].pc = "loop" /\ walker'[w].i = walker[w].num_steps ]_vars

\* start_crawl(seed, 2) has returned Ok: two records, two match lists
\* fetched, two ids reserved
C19_Witness ==
    \E w \in Walkers :
        /\ walker[w].pc = "done"
        /\ walker[w].num_steps = 2
        /\ Cardinality(RecordsOf(w)) = 2
        /\ walker[w].fetched = 2

\* C20: when a walker ends with an Err of a query (or of the write), every
\* other walker is left as it was, free to run on to its own end, and the
\* output file keeps every record written so far; no step ever removes a
\* record from the file.
C20_ErrorLeavesSiblingsRunning ==
    [][ /\ \A w \in Walkers :
             (walker[w].pc # "failed" /\ walker'[w].pc = "failed")
             => /\ \A v \in Walkers \ {w} : walker'[v] = walker[v]
                /\ file_out' = file_out
        /\ Len(file_out') >= Len(file_out)
        /\ SubSeq(file_out', 1, Len(file_out)) = file_out ]_vars

\* a walker has failed after it wrote a record, its sibling has run to the
\* end of a crawl of two steps, and the file holds the records of both
C20_Witness ==
    \E w, v \in Walkers :
        /\ walker[w].pc = "failed" /\ walker[w].emitted = 1
        /\ walker[v].pc = "done" /\ walker[v].num_steps = 2
        /\ RecordsOf(w) # {}
        /\ Cardinality(RecordsOf(v)) = 2
        /\ file_out[Len(file_out)].walker = v

\* C22: admission over the three tiers: a request whose Region endpoint is
\* in a Cooldown that has not yet elapsed is rejected, a request whose
\* Method endpoint is in one is rejected, and a request none of whose
\* endpoints is in Cooldown is admitted.
C22_TieredAdmission ==
    [][ \A r \in Requests :
          Admits(r)
          => LET ids == ids_of(r)
                 live(id) == /\ id \in DOMAIN endpoints
                             /\ LiveCooldown(endpoints[id].status, now)
                 rejected == /\ pc'[r] = "returned"
                             /\ local'[r].res.kind = "EndpointNotReady"
             IN  /\ live(ids[1]) => rejected
                 /\ live(ids[3]) => rejected
                 /\ (\A id \in Affected(r) \cap DOMAIN endpoints :
                        endpoints[id].status.tag # "Cooldown")
                    => pc'[r] = "send" ]_vars

\* C23: the three Ids of every request answer true to exactly the predicate
\* of their own tier: the region id to is_region, the service id to
\* is_service and the method id to is_method.
C23_IdTiers ==
    \A r \in Requests :
        LET ids == ids_of(r)
        IN  /\ is_region(ids[1]) /\ ~ is_service(ids[1]) /\ ~ is_method(ids[1])
            /\ ~ is_region(ids[2]) /\ is_service(ids[2]) /\ ~ is_method(ids[2])
            /\ ~ is_region(ids[3]) /\ ~ is_service(ids[3]) /\ is_method(ids[3])

\* the service-tier endpoint of every request
ServiceId == from_service(Na1, SummonerV4)

\* C24: the service-tier endpoint never has a bucket, so should_cooldown
\* finds nothing for it, and it enters Cooldown only in a step that
\* processes a 429.
C24_ServiceHasNoBuckets ==
    /\ [](ServiceId \in DOMAIN endpoints
            => /\ endpoints[ServiceId].rate_limit_buckets = EmptyBuckets
               /\ should_cooldown(endpoints[ServiceId], now) = {})
    /\ [][ ( /\ ServiceId \in DOMAIN endpoints
             /\ endpoints[ServiceId].status.tag # "Cooldown"
             /\ endpoints'[ServiceId].status.tag = "Cooldown" )
           => \E r \in Requests : Observes429(r) ]_vars

\* the service endpoint is in Cooldown, without a bucket, while the region
\* endpoint holds the buckets of an observed 200
C24_Witness ==
    /\ ServiceId \in DOMAIN endpoints
    /\ endpoints[ServiceId].status.tag = "Cooldown"
    /\ endpoints[ServiceId].rate_limit_buckets = EmptyBuckets
    /\ from_region(Na1) \in DOMAIN endpoints
    /\ endpoints[from_region(Na1)].rate_limit_buckets # EmptyBuckets

\* C25: an attempt that fails with EndpointNotReady while more than one
\* affected endpoint is in Cooldown carries the status with the longest
\* remaining cooldown among them.
C25_LongestCooldownWins ==
    [][ \A r \in Requests :
          LET cooling == { id \in Affected(r) \cap DOMAIN endpoints' :
                               endpoints'[id].status.tag = "Cooldown" }
          IN  ( /\ pc[r] \in {"prepare_locked", "transition_locked"}
                /\ pc'[r] = "returned"
                /\ local'[r].res.kind = "EndpointNotReady"
                /\ Cardinality(cooling) > 1 )
              => \A id \in cooling :
                    Remaining(local'[r].res.status, now')
                        >= Remaining(endpoints'[id].status, now') ]_vars

\* a step of request q inside the observe step (bucket update or status
\* transition)
ObserveStep(q) ==
    pc[q] \in {"cache_locked", "transition_locked"} /\ pc'[q] # pc[q]

\* C26: the observe step is one critical section: while request r is
\* between its bucket update and its status transition, no other request
\* takes an admission step or a step of its own observe step.
C26_ObserveIsOneSection ==
    [][ \A r, q \in Requests :
          (r # q /\ pc[r] = "transition") => ~ (Admits(q) \/ ObserveStep(q)) ]_vars

\* C27: admission looks at the statuses of the affected endpoints and at
\* nothing else, and leaves no count behind: a request is admitted exactly
\* when, after the pre-send update, none of its endpoints is in Cooldown,
\* however many requests are in flight, and admission changes no bucket and
\* no last-update time.
C27_AdmissionCountsNothing ==
    [][ \A r \in Requests :
          Admits(r)
          => /\ (pc'[r] = "send")
                  <=> \A id \in Affected(r) :
                         /\ id \in DOMAIN endpoints'
                         /\ endpoints'[id].status.tag # "Cooldown"
             /\ \A id \in DOMAIN endpoints :
                   /\ endpoints'[id].rate_limit_buckets
                          = endpoints[id].rate_limit_buckets
                   /\ endpoints'[id].last_update_timestamp_ms
                          = endpoints[id].last_update_timestamp_ms ]_vars

\* two requests on the same endpoints are in flight together: both have
\* been admitted and the response of neither has been observed
C27_Witness ==
    \E r, q \in Requests :
        /\ r # q
        /\ pc[r] = "await"
        /\ pc[q] \in {"send", "await"}
        /\ Affected(r) = Affected(q)

\* C28: cache_rate_limits of a 200 whose Date equals an endpoint's last
\* update replaces the buckets of a region or method endpoint by those of
\* the response.
C28_EqualDateIsFolded ==
    [][ \A r \in Requests :
          (pc[r] = "cache_locked" /\ pc'[r] = "transition")
          => \A id \in Affected(r) :
                LET pre == endpoints[id]
                    post == endpoints'[id]
                    resp == local[r].response
                IN  ( /\ is_region(id) \/ is_method(id)
                      /\ resp.date = pre.last_update_timestamp_ms )
                    => post.rate_limit_buckets
                           = BucketsOf(HeaderFor(resp, id), resp.date, now) ]_vars

\* C29: the pre-send update carries the duration d of a Cooldown unchanged
\* into JustOffCooldown(d), and a 429 applied to JustOffCooldown(d) gives a
\* Cooldown of 2d started now (the endpoint is left as it was only when the
\* handler aborts).
C29_ProbeDoubles ==
    [][ \A r \in Requests :
          /\ Admits(r)
             => \A id \in Affected(r) \cap DOMAIN endpoints :
                   endpoints[id].status.tag = "Cooldown"
                   => \/ endpoints'[id] = endpoints[id]
                      \/ endpoints'[id].status
                             = JustOffCooldown(endpoints[id].status.duration)
          /\ Observes429(r)
             => \A id \in Affected(r) :
                   endpoints[id].status.tag = "JustOffCooldown"
                   => \/ /\ pc'[r] = "panicked"
                         /\ endpoints'[id] = endpoints[id]
                      \/ endpoints'[id].status
                             = Cooldown(CooldownState_new(
                                   2 * endpoints[id].status.duration, now)) ]_vars

\* a second probe in a row has received a 429: an endpoint that started
\* with a cooldown of 1 is in a Cooldown of 4 started now
C29_Witness ==
    \E r \in Requests :
        /\ pc[r] = "returned" /\ local[r].status_code = TOO_MANY_REQUESTS
        /\ \E id \in Affected(r) :
              endpoints[id].status = Cooldown(CooldownState_new(4, now))

\* the smallest headroom max_count - count over the buckets of ep
MinHeadroom(ep) ==
    LET b == ep.rate_limit_buckets
    IN  CHOOSE h \in { b[w].max_count - b[w].count : w \in DOMAIN b } :
            \A w \in DOMAIN b : h <= b[w].max_count - b[w].count

\* C30: a 429 processed when no affected endpoint is in Cooldown after the
\* per-endpoint update (each was Unknown or Normal) and some affected
\* endpoint has buckets forces exactly one endpoint into Cooldown: one with
\* the smallest headroom of all, started now, for the window of a bucket
\* with that headroom; every other affected endpoint is left as it was.
C30_StopgapForcesOne ==
    [][ \A r \in Requests :
          LET ids == Affected(r)
              known == { id \in ids : endpoints[id].rate_limit_buckets # EmptyBuckets }
          IN  ( /\ Observes429(r) /\ pc'[r] = "returned"
                /\ \A id \in ids : endpoints[id].status.tag \in {"Unkown", "Normal"}
                /\ known # {} )
              => \E id \in known :
                    /\ \A other \in known :
                          MinHeadroom(endpoints[id]) <= MinHeadroom(endpoints[other])
                    /\ endpoints'[id].status.tag = "Cooldown"
                    /\ endpoints'[id].status.start = now
                    /\ \E w \in DOMAIN endpoints[id].rate_limit_buckets :
                          /\ endpoints[id].rate_limit_buckets[w].max_count
                               - endpoints[id].rate_limit_buckets[w].count
                                 = MinHeadroom(endpoints[id])
                          /\ endpoints'[id].status.duration = w
                    /\ endpoints'[id].rate_limit_buckets
                           = endpoints[id].rate_limit_buckets
                    /\ \A other \in ids \ {id} :
                          endpoints'[other] = endpoints[other] ]_vars

\* a 429 has forced the method endpoint, whose bucket is full, into a
\* Cooldown started now, and has left the region endpoint, which comes
\* first and has a bucket with room, Normal
C30_Witness ==
    \E r \in Requests :
        LET region == ids_of(r)[1]
            method == ids_of(r)[3]
        IN  /\ pc[r] = "returned" /\ local[r].status_code = TOO_MANY_REQUESTS
            /\ endpoints[region].status = Normal
            /\ endpoints[region].rate_limit_buckets # EmptyBuckets
            /\ ~ HasFullBucket(endpoints[region])
            /\ HasFullBucket(endpoints[method])
            /\ endpoints[method].status.tag = "Cooldown"
            /\ endpoints[method].status.start = now

\* the locks task w (walker w and the request it has in the Context) holds
LocksHeld(w) ==
    (IF lock = w THEN {"endpoints"} ELSE {})
        \cup (IF ids_lock = w THEN {"found_match_ids"} ELSE {})
        \cup (IF file_lock = w THEN {"file_out"} ELSE {})

\* C21: no task holds two of the three locks (endpoint table, seen set,
\* output sink) at the same time, and no task acquires a lock while it
\* holds one.
C21_LocksNeverNested ==
    /\ [](\A w \in Walkers : Cardinality(LocksHeld(w)) <= 1)
    /\ [][ \A w \in Walkers :
             LocksHeld(w) # {} => LocksHeld(w)' \subseteq LocksHeld(w) ]_vars

\* a task holds the file_out lock, after it has held the endpoints lock and
\* the found_match_ids lock in turn, while another task holds the endpoints
\* lock
C21_Witness ==
    \E w, v \in Walkers :
        /\ w # v
        /\ LocksHeld(w) = {"file_out"}
        /\ Len(walker[w].reserved) > 0
        /\ LocksHeld(v) = {"endpoints"}

\* C32: the window start of every bucket is an observation time (a Date of
\* an accepted response), never a value of the local clock: it is at most
\* the endpoint's last update.
C32_WindowStartIsObserved ==
    \A id \in DOMAIN endpoints :
        \A w \in DOMAIN endpoints[id].rate_limit_buckets :
            endpoints[id].rate_limit_buckets[w].start_timestamp
                <= endpoints[id].last_update_timestamp_ms

\* a step of request r between the arrival of its response and the return
\* of handle_response
HandlesResponse(r) ==
    /\ pc[r] \in {"await", "cache_locked", "transition", "transition_locked"}
    /\ pc'[r] # pc[r]

\* C33: handling a response that is neither 200 nor 429 changes no
\* endpoint; handling a 429 changes no bucket and no last update.
C33_ErrorResponsesFrame ==
    [][ \A r \in Requests :
          HandlesResponse(r)
          => /\ local[r].response.status \notin {OK, TOO_MANY_REQUESTS}
                => endpoints' = endpoints
             /\ local[r].response.status = TOO_MANY_REQUESTS
                => \A id \in DOMAIN endpoints :
                      /\ endpoints'[id].rate_limit_buckets
                             = endpoints[id].rate_limit_buckets
                      /\ endpoints'[id].last_update_timestamp_ms
                             = endpoints[id].last_update_timestamp_ms ]_vars

\* a 500 has been handled for a request whose region endpoint is Normal and
\* holds the buckets of an earlier 200
C33_Witness ==
    \E r \in Requests :
        /\ pc[r] = "returned"
        /\ local[r].status_code = INTERNAL_SERVER_ERROR
        /\ local[r].res = ReqwestStatus(INTERNAL_SERVER_ERROR)
        /\ endpoints[ids_of(r)[1]].status = Normal
        /\ endpoints[ids_of(r)[1]].rate_limit_buckets # EmptyBuckets

\* C34: an endpoint enters the table at an admission step of a request it
\* is affected by, as Unknown with no bucket and last update 0; no endpoint
\* leaves the table; and a request that has been admitted finds all of its
\* endpoints in the table until its response has been handled.
C34_EndpointsLazyAndKept ==
    /\ [](\A r \in Requests :
            pc[r] \in {"send", "await", "cache_locked", "transition",
                       "transition_locked"}
            => Affected(r) \subseteq DOMAIN endpoints)
    /\ [][ /\ DOMAIN endpoints \subseteq DOMAIN endpoints'
           /\ \A id \in DOMAIN endpoints' \ DOMAIN endpoints :
                 /\ endpoints'[id].status = Unkown
                 /\ endpoints'[id].rate_limit_buckets = EmptyBuckets
                 /\ endpoints'[id].last_update_timestamp_ms = 0
                 /\ \E r \in Requests : Admits(r) /\ id \in Affected(r) ]_vars

\* a request is about to run its status transition and finds its three
\* endpoints in the table, some of them changed since they were created
C34_Witness ==
    \E r \in Requests :
        /\ pc[r] = "transition_locked"
        /\ Affected(r) \subseteq DOMAIN endpoints
        /\ \E id \in Affected(r) : endpoints[id].status # Unkown
        /\ \E id \in Affected(r) : endpoints[id].status = Unkown

\* C35: an admission at which every Cooldown of an affected endpoint has
\* lasted its duration (elapsed >= d) turns those Cooldowns into
\* JustOffCooldown and admits the request.
C35_ElapsedCooldownAdmits ==
    [][ \A r \in Requests :
          ( /\ Admits(r)
            /\ \A id \in Affected(r) \cap DOMAIN endpoints :
                  endpoints[id].status.tag = "Cooldown"
                  => now - endpoints[id].status.start
                         >= endpoints[id].status.duration )
          => /\ pc'[r] = "send"
             /\ \A id \in Affected(r) \cap DOMAIN endpoints :
                   endpoints[id].status.tag = "Cooldown"
                   => endpoints'[id].status
                          = JustOffCooldown(endpoints[id].status.duration) ]_vars

MaxOf(S) == CHOOSE x \in S : \A y \in S : y <= x

\* C39: the Cooldown a 200 puts an endpoint in (one that was not in
\* Cooldown and has a full bucket) is the one of the longest window among
\* its full buckets, started now.
C39_LongestFullWindow ==
    [][ \A r \in Requests :
          (Observes200(r) /\ pc'[r] = "returned")
          => \A id \in Affected(r) :
                (endpoints[id].status.tag # "Cooldown" /\ HasFullBucket(endpoints[id]))
                => endpoints'[id].status
                       = Cooldown(CooldownState_new(
                             MaxOf(FullWindows(endpoints[id])), now)) ]_vars

\* the windows a header list names
WindowsOf(list) == { list[k][2] : k \in 1..Len(list) }

\* the value the last entry of window w gives in a header list
LastOf(list, w) ==
    list[CHOOSE k \in 1..Len(list) :
            /\ list[k][2] = w
            /\ \A j \in 1..Len(list) : list[j][2] = w => j <= k][1]

\* C31: update_buckets(limits, counts, t), when it returns, leaves exactly
\* one bucket per window of limits, with max_count from limits and count
\* from the counts entry of that window (0 when there is none), and last
\* update t, whatever buckets the endpoint had; and for limits 20:1,100:120
\* with counts 1:1,1:120 an Unknown endpoint gets {window 1, max 20,
\* count 1}, {window 120, max 100, count 1} and is Normal after the 200
\* update.
C31_BucketsAreTheObservation ==
    /\ \A id \in DOMAIN endpoints :
          \A limits \in LimitLists, counts \in CountLists :
              ~ update_buckets_panics(limits, counts)
              => LET post == update_buckets(endpoints[id], limits, counts, now, now)
                     b == post.rate_limit_buckets
                 IN  /\ DOMAIN b = WindowsOf(limits)
                     /\ \A w \in DOMAIN b :
                           /\ b[w].max_count = LastOf(limits, w)
                           /\ b[w].count = IF w \in WindowsOf(counts)
                                           THEN LastOf(counts, w) ELSE 0
                     /\ post.last_update_timestamp_ms = now
    /\ LET post == update_buckets(Endpoint_new, << <<20, 1>>, <<100, 120>> >>,
                                  << <<1, 1>>, <<1, 120>> >>, now, now)
           b == post.rate_limit_buckets
       IN  /\ DOMAIN b = {1, 120}
           /\ b[1].max_count = 20 /\ b[1].count = 1
           /\ b[120].max_count = 100 /\ b[120].count = 1
           /\ update_status_200(post, now) = { [post EXCEPT !.status = Normal] }

\* update_buckets has run on the region endpoint at the present instant,
\* after the first second: the endpoint holds two buckets, one with the
\* count of its counts entry and one, without a counts entry, with count 0
C31_Witness ==
    /\ now > 1
    /\ from_region(Na1) \in DOMAIN endpoints
    /\ LET ep == endpoints[from_region(Na1)]
       IN  /\ DOMAIN ep.rate_limit_buckets = {1, 2}
           /\ ep.rate_limit_buckets[1].count = 1
           /\ ep.rate_limit_buckets[2].count = 0
           /\ ep.last_update_timestamp_ms = now

\* C37: a 200 whose rate-limit headers are missing makes the call fail and
\* changes no endpoint.
C37_BadHeadersChangeNothing ==
    [][ \A r \in Requests :
          ( /\ pc[r] = "cache_locked"
            /\ pc'[r] = "returned"
            /\ local'[r].res = HeaderError )
          => endpoints' = endpoints ]_vars

\* C38: cache_rate_limits, which calls update_buckets under the endpoint
\* table lock with the lists of the headers, never aborts.
C38_UpdateBucketsNeverAborts ==
    [][ \A r \in Requests :
          (pc[r] = "cache_locked" /\ lock = r) => pc'[r] # "panicked" ]_vars

\* the ids reserve_new_match_id has returned so far, to any walker
ReservedIds ==
    UNION { { walker[w].reserved[k] : k \in 1..Len(walker[w].reserved) } :
            w \in Walkers }

\* C40: the seen set only grows and is the set of the ids returned by
\* reserve_new_match_id so far; every record of the sink carries an id its
\* writer had reserved; and no id is in two records of the sink.
C40_SeenIsReservedWrittenOnce ==
    /\ [](/\ found_match_ids = ReservedIds
          /\ \A k \in 1..Len(file_out) :
                \E j \in 1..Len(walker[file_out[k].walker].reserved) :
                    walker[file_out[k].walker].reserved[j] = file_out[k].match_id
          /\ \A k, j \in 1..Len(file_out) :
                file_out[k].match_id = file_out[j].match_id => k = j)
    /\ [][found_match_ids \subseteq found_match_ids']_vars

\* the two walkers have each written a record and three ids have been
\* reserved between them
C40_Witness ==
    /\ \A w \in Walkers : RecordsOf(w) # {}
    /\ Cardinality(found_match_ids) = 3
    /\ found_match_ids = ReservedIds

====
